---- MODULE Spec2Model ----
(***************************************************************************)
(* Node-session and request-orchestration layer of beet_api                *)
(* (src/src/lib/api.ts, routes and store in src/unnamed/part_000).         *)
(*                                                                         *)
(* Every entry point of api.ts is an async function.  JavaScript runs the  *)
(* code between two awaits without interruption, so one action of the      *)
(* model is the code of one entry point from one await to the next.  The   *)
(* connection object `Apis` is the module-level singleton imported on      *)
(* api.ts:2: every request reaches it through Apis.instance() and releases *)
(* it through Apis.close(), neither of which takes a session handle.       *)
(***************************************************************************)
EXTENDS Integers, Sequences, FiniteSets

VARIABLES
    nodes,      \* app.store: per chain, the ordered endpoint list
    apis,       \* the Apis singleton: NoConn or the current connection
    req,        \* per request slot: the locals of the call it runs
    calls,      \* number of entry-point calls started so far
    serial,     \* TRUE: the callers never overlap two calls
    streak,     \* history, per chain: the current run of failed connects
    http        \* the last HTTP request handled by the route layer

vars == <<nodes, apis, req, calls, serial, streak, http>>

----------------------------------------------------------------------------
(* Bounds *)

MaxCalls == 2           \* calls started in an overlapping run
MaxSeqCalls == 4        \* calls started in a run without overlap
NumMainNodes == 3       \* endpoints configured for "bitshares"
NumTestNodes == 2       \* endpoints configured for "bitshares_testnet"
MaxIds == 120           \* longest object_ids list of getObjects

ChunkSize == 50         \* api.ts:154

\* The request slots: two calls can be in flight together.
Reqs == {1, 2}
Chains == {"bitshares", "bitshares_testnet"}

\* Endpoints are numbered; 0 stands for "no endpoint".
ConfigNodes(c) ==
    IF c = "bitshares" THEN [i \in 1..NumMainNodes |-> i]
    ELSE [i \in 1..NumTestNodes |-> 100 + i]

Fns == {"generateDeepLink", "getObjects", "getBlockedAccounts", "accountSearch",
        "getFullAccounts", "getAccountBalances", "getLimitOrders",
        "fetchOrderBook", "getPortfolio", "getAccountHistory"}

\* What the awaited fetch(url) can deliver: it throws (the service cannot be
\* reached), or returns a response whose `ok` is false or true.
FetchOutcomes == {"throw", "error_status", "ok"}

\* What an awaited db_api().exec(...) can deliver.
RpcOutcomes == {"throw", "absent", "empty", "data"}
\* What the awaited init_promise can deliver: the connect fails, or the endpoint
\* is connected, with or without the database API.
ConnectOutcomes == {"fail", "ok", "nodb"}
\* After set_required_fees: it throws, or set_expire_seconds throws, or
\* finalize throws at once, or all three calls return.
FeesOutcomes == {"throw", "exp_throw", "fin_throw", "data"}
\* Awaits that are no RPC (uuidv4, Apis.close) resume; what follows may throw.
\* "throw": the awaited call throws; "ser_throw": JSON.stringify(tr.toObject())
\* throws; "enc_throw": encodeURIComponent(JSON.stringify(request)) throws.
TickOutcomes == {"ok", "throw", "ser_throw", "enc_throw"}
\* tr.add_type_operation, a call into the library: it returns or throws.
AddOutcomes == {"ok", "throw"}

Ids(n) == [k \in 1..n |-> k]
\* object_ids when the body of the request was the JSON text null: the
\* route hands JSON.parse(body) on as it is.  It is told from every list of
\* IDs by an entry no ID has.
null == <<-1>>
IdLens == {0, 1, 3, ChunkSize, ChunkSize + 1, 2 * ChunkSize + 20, MaxIds}
IdLists == {Ids(n) : n \in IdLens} \cup {<<3>>, null}
\* The values tried when calls overlap: none, one, unknown only, and null.
ShortIdLists == {Ids(0), Ids(1), <<3>>, null}

\* Inputs of generateDeepLink: the operation type and the list of operation
\* payloads (a payload is a number here).
OpTypes == {"transfer", "limit_order_create"}
OpLists == {<<>>, <<7>>, <<8, 7>>}
DeepLinkInputs == [opType : OpTypes, operations : OpLists]
ShortDeepLinkInputs == {[opType |-> "transfer", operations |-> <<8, 7>>]}
NoDeepLinkInput == [opType |-> "none", operations |-> <<>>]

NoConn == [owner |-> 0, url |-> 0, st |-> "none", db |-> FALSE]

Blank == [fn |-> "none", chain |-> "none", app |-> TRUE, pc |-> "idle",
          node |-> 0, opened |-> FALSE, conns |-> 0, rots |-> 0,
          rpcLog |-> <<>>, closes |-> 0, settled |-> "none", err |-> "none",
          closesAtSettle |-> 0, out |-> "none", out2 |-> "none",
          steps |-> <<>>, fin |-> "none", finAtSerialize |-> "none",
          ids |-> <<>>, i |-> 0, got |-> <<>>, chunkLog |-> <<>>, outs |-> <<>>,
          connEv |-> "none", opType |-> "none", operations |-> <<>>,
          headAfter |-> 0,
          closesAtSerialize |-> 0, msg |-> "none",
          lateExecs |-> 0]

----------------------------------------------------------------------------
(* states.ts: the endpoint registry *)

\* getCurrentNode(chain, app): the head of the chain's list.
getCurrentNode(ns, c) == ns[c][1]

\* A rotation that appends the head without removing it.
changeURL_keepshead(l) == IF Len(l) = 0 THEN l ELSE Append(l, Head(l))

\* The list with its head moved to the back.
changeURL(l) == IF Len(l) = 0 THEN l ELSE Append(Tail(l), Head(l))

----------------------------------------------------------------------------
(* The world a continuation works on: the running call q, the singleton and *)
(* the store.                                                               *)

World(r) == [r |-> r, q |-> req[r], apis |-> apis, nodes |-> nodes,
             thrown |-> "none", add |-> "ok"]

\* The errors a remote call or the library can throw, and the TypeError of a
\* call on the db_api() of a connection that has none.
RemoteErrors == {"closed", "timeout"}
TypeError == "TypeError"

\* The error thrown in the code that an event resumes: the one the awaited
\* call throws, or else the TypeError above.
Thrown(ev) ==
    IF ev \in {"fail", "throw", "exp_throw", "fin_throw"} THEN RemoteErrors
    ELSE {TypeError}

\* The catch blocks that hand the caught error on: reject(error).  Every
\* other rejection is a new Error(...) with a message of its own.
CatchSites == {"connect", "head", "fees", "expire", "finalize", "encode",
               "rpc", "fetch"}

\* Apis.instance().db_api() is truthy
DbApi(a) == a.st = "open" /\ a.db

\* Apis.close()
ApisClose(w) == [w EXCEPT !.apis = NoConn, !.q.closes = @ + 1]

\* changeURL(chain, app)
Rotate(w) ==
    [w EXCEPT !.nodes[w.q.chain] = changeURL(@), !.q.rots = @ + 1,
              !.q.headAfter = getCurrentNode(
                                [w.nodes EXCEPT ![w.q.chain] = changeURL(@)],
                                w.q.chain)]

\* What the caller receives: the caught error for a rejection in a catch
\* block, otherwise the message or value of its own.
Delivered(w, how, e) ==
    IF how = "rejected" /\ e \in CatchSites THEN w.thrown ELSE e

\* reject(e) / resolve(v): only the first settlement of a promise counts.
Settle(w, how, e) ==
    IF w.q.settled # "none" THEN w
    ELSE [w EXCEPT !.q.settled = how, !.q.err = e,
                   !.q.msg = Delivered(w, how, e),
                   !.q.closesAtSettle = w.q.closes]

reject(w, e) == Settle(w, "rejected", e)
resolve(w, v) == Settle(w, "resolved", v)

Goto(w, p) == [w EXCEPT !.q.pc = p]

\* Apis.instance().db_api().exec(method, ...) issued over the singleton
Exec(w, method, p) ==
    [w EXCEPT !.q.rpcLog = Append(@, [m |-> method, url |-> w.apis.url,
                                      owner |-> w.apis.owner]),
              !.q.pc = p]

\* db_api().exec(...) invoked while Apis has no usable connection: nothing
\* is sent.  The invocations a call makes after a close of its own are
\* counted.
ExecOnClosed(w) ==
    IF w.q.closes > 0 THEN [w EXCEPT !.q.lateExecs = @ + 1] ELSE w

Done(w) == Goto(w, "done")

\* Apis.instance(node, true, ...): the singleton starts to connect to node.
ApisInstance(w, node) ==
    [w EXCEPT !.apis = [owner |-> w.r, url |-> node, st |-> "connecting",
                        db |-> FALSE],
              !.q.node = node, !.q.conns = @ + 1, !.q.pc = "connect"]

\* init_promise settles: the connection this call started is up (with or
\* without db_api) or has failed, if the singleton still holds it.
ApisInit(w, ev) ==
    LET mine == w.apis.owner = w.r /\ w.apis.st = "connecting"
        w1 == IF ~mine THEN w
              ELSE IF ev = "fail" THEN [w EXCEPT !.apis.st = "failed"]
              ELSE [w EXCEPT !.apis.st = "open", !.apis.db = (ev = "ok")]
    IN  IF ev = "fail" THEN [w1 EXCEPT !.q.connEv = ev]
        ELSE [w1 EXCEPT !.q.opened = TRUE, !.q.connEv = ev]

Step(w, s) == [w EXCEPT !.q.steps = Append(@, s)]

----------------------------------------------------------------------------
(* api.ts: the entry points.  Each operator is the function's body as a    *)
(* machine over the await it is suspended at (w.q.pc); ev is what that     *)
(* await delivered.                                                        *)

\* lines 35-39: tr.add_type_operation is called once for every operation,
\* outside every try: when the library call throws, the executor ends there.
AddThrows(w) == Len(w.q.operations) > 0 /\ w.add = "throw"

\* lines 21-48: init_promise settled; the draft is built and
\* update_head_block is called.
generateDeepLink_init(w, ev) ==
    LET w1 == ApisInit(w, ev)
        w2 == Step(w1, "head")
    IN  IF ev = "fail" THEN Done(reject(Rotate(w1), "connect"))
        ELSE IF AddThrows(w)
        THEN \* nothing is closed, the promise is never settled
             Done(w1)
        ELSE IF DbApi(w2.apis) THEN Exec(w2, "update_head_block", "head")
        ELSE Done(reject(ApisClose(w2), "head"))

\* lines 41-57: update_head_block settled; set_required_fees is called.
generateDeepLink_head(w, ev) ==
    LET w1 == Step(w, "fees")
    IN  IF ev = "throw" THEN Done(reject(ApisClose(w), "head"))
        ELSE IF DbApi(w1.apis) THEN Exec(w1, "set_required_fees", "fees")
        ELSE Done(reject(ApisClose(w1), "fees"))

\* lines 50-79: set_required_fees settled; set_expire_seconds and finalize
\* are called, then `await uuidv4()`.
generateDeepLink_fees(w, ev) ==
    LET w1 == Step(w, "expire")
        w2 == Step(w1, "finalize")
    IN  CASE ev = "throw" -> Done(reject(ApisClose(w), "fees"))
          [] ev = "exp_throw" -> Done(reject(ApisClose(w1), "expire"))
          [] ev = "fin_throw" ->
                Done(reject(ApisClose([w2 EXCEPT !.q.fin = "thrown"]), "finalize"))
          [] OTHER ->
                \* tr.finalize(Apis) is not awaited: it is in flight while
                \* the function goes on to `await uuidv4()`.
                IF DbApi(w2.apis)
                THEN [Exec(w2, "finalize", "uuid") EXCEPT !.q.fin = "pending"]
                ELSE [Goto(w2, "uuid") EXCEPT !.q.fin = "failed"]

\* lines 77-105: the draft is serialized into the request, the session
\* closed, the request encoded and delivered.  Only the encoding at line 98
\* is inside a try: a throw of uuidv4() (79) or of the serialization (84)
\* ends the executor before Apis.close() at 94, the promise never settled.
generateDeepLink_envelope(w, ev) ==
    LET w1 == [Step(w, "serialize") EXCEPT !.q.finAtSerialize = w.q.fin,
                                           !.q.closesAtSerialize = w.q.closes]
        w2 == ApisClose(w1)
    IN  CASE ev = "throw" -> Done(w)
          [] ev = "ser_throw" -> Done(w1)
          [] ev = "enc_throw" -> Done(reject(w2, "encode"))
          [] OTHER -> Done(resolve(w2, "envelope"))

generateDeepLink(w, ev) ==
    CASE w.q.pc = "idle" -> ApisInstance(w, getCurrentNode(w.nodes, w.q.chain))
      [] w.q.pc = "connect" -> generateDeepLink_init(w, ev)
      [] w.q.pc = "head" -> generateDeepLink_head(w, ev)
      [] w.q.pc = "fees" -> generateDeepLink_fees(w, ev)
      [] w.q.pc = "uuid" -> generateDeepLink_envelope(w, ev)
      [] OTHER -> w

\* An object ID the chain does not know: get_objects answers null for it.
Null == 0
Missing(id) == id % 3 = 0
Lookup(id) == IF Missing(id) THEN Null ELSE id

Min(a, b) == IF a < b THEN a ELSE b

\* arr.slice(i, j), 0-based, j exclusive and clipped to the length
Slice(arr, i, j) == SubSeq(arr, i + 1, Min(j, Len(arr)))

RECURSIVE SliceFrom(_, _, _)
SliceFrom(arr, size, i) ==
    IF i < Len(arr)
    THEN <<Slice(arr, i, i + size)>> \o SliceFrom(arr, size, i + size)
    ELSE <<>>

\* Chunks one element too long.
_sliceIntoChunks_toolong(arr, size) == SliceFrom(arr, size + 1, 0)

_sliceIntoChunks(arr, size) == SliceFrom(arr, size, 0)

\* No filter at all.
FilterNull_keepsall(xs) == xs

\* got_objects.filter((x) => x !== null)
FilterNull(xs) == SelectSeq(xs, LAMBDA x : x # Null)

\* History, kept for the runs without overlap: the get_objects calls issued
\* and what became of each chunk.
LogChunk(w, chunk) ==
    IF serial
    THEN [w EXCEPT !.q.chunkLog = Append(@, [ids |-> chunk, recursive |-> FALSE])]
    ELSE w
LogOut(w, ev) == IF serial THEN [w EXCEPT !.q.outs = Append(@, ev)] ELSE w

\* lines 170-177: after the loop
getObjects_end(w) ==
    LET w1 == ApisClose(w)
    IN  IF Len(w1.q.got) > 0 THEN Done(resolve(w1, "objects"))
        ELSE Done(reject(w1, "no_objects"))

RECURSIVE getObjects_loop(_)
\* The for loop of getObjects from chunk number w.q.i on, up to the next
\* await: a chunk whose exec throws at once is skipped, after the last chunk
\* the session is closed and the promise settled.
getObjects_loop(w) ==
    LET chunksOfInputs == _sliceIntoChunks(w.q.ids, ChunkSize)
    IN  IF w.q.i > Len(chunksOfInputs) THEN getObjects_end(w)
        ELSE IF DbApi(w.apis)
        THEN LogChunk(Exec(w, "get_objects", "chunk"), chunksOfInputs[w.q.i])
        ELSE \* db_api() is undefined: .exec throws, the catch continues
             getObjects_loop(LogOut([w EXCEPT !.q.i = @ + 1], "throw"))

\* The same with the test of `app` in the catch block inverted.
getObjects_init_norotate(w, ev) ==
    LET w1 == ApisInit(w, ev)
        w2 == ApisClose(w1)
    IN  IF ev = "fail"
        THEN Done(reject(IF ~w.q.app THEN Rotate(w2) ELSE w2, "connect"))
        ELSE IF w.q.ids = null
        THEN \* line 154: arr.length of null throws in the executor, outside
             \* every try: nothing is closed, the promise is never settled
             Done(w1)
        ELSE getObjects_loop([w1 EXCEPT !.q.i = 1])

\* lines 134-154: init_promise settled; the list is cut into chunks
getObjects_init(w, ev) ==
    LET w1 == ApisInit(w, ev)
        w2 == ApisClose(w1)
    IN  IF ev = "fail"
        THEN Done(reject(IF w.q.app THEN Rotate(w2) ELSE w2, "connect"))
        ELSE IF w.q.ids = null
        THEN \* line 154: arr.length of null throws in the executor, outside
             \* every try: nothing is closed, the promise is never settled
             Done(w1)
        ELSE getObjects_loop([w1 EXCEPT !.q.i = 1])

\* The same with `break` for `continue` in the catch block.
getObjects_chunk_break(w, ev) ==
    LET chunksOfInputs == _sliceIntoChunks(w.q.ids, ChunkSize)
        currentChunk == chunksOfInputs[w.q.i]
        got_objects == [k \in 1..Len(currentChunk) |-> Lookup(currentChunk[k])]
        w1 == IF ev = "data"
              THEN [w EXCEPT !.q.got = @ \o FilterNull(got_objects)]
              ELSE w
    IN  IF ev = "throw"
        THEN getObjects_loop(LogOut([w1 EXCEPT !.q.i = Len(chunksOfInputs) + 1], ev))
        ELSE getObjects_loop(LogOut([w1 EXCEPT !.q.i = @ + 1], ev))

\* lines 156-168: the exec of chunk number w.q.i settled
getObjects_chunk(w, ev) ==
    LET currentChunk == _sliceIntoChunks(w.q.ids, ChunkSize)[w.q.i]
        got_objects == [k \in 1..Len(currentChunk) |-> Lookup(currentChunk[k])]
        w1 == IF ev = "data"
              THEN [w EXCEPT !.q.got = @ \o FilterNull(got_objects)]
              ELSE w
    IN  getObjects_loop(LogOut([w1 EXCEPT !.q.i = @ + 1], ev))

getObjects(w, ev) ==
    CASE w.q.pc = "idle" ->
            ApisInstance(w, IF w.q.app THEN getCurrentNode(w.nodes, w.q.chain)
                            ELSE ConfigNodes(w.q.chain)[1])
      [] w.q.pc = "connect" -> getObjects_init(w, ev)
      [] w.q.pc = "chunk" -> getObjects_chunk(w, ev)
      [] OTHER -> w

\* init_promise settled
getBlockedAccounts_init(w, ev) ==
    LET w1 == ApisInit(w, ev)
    IN  IF ev = "fail" THEN Done(reject(Rotate(w1), "connect"))
        ELSE IF ~DbApi(w1.apis)
        THEN Done(reject(ApisClose(w1), "no_db_api"))
        ELSE Exec(w1, "get_accounts", "rpc")

getBlockedAccounts(w, ev) ==
    CASE w.q.pc = "idle" ->
            ApisInstance(w, getCurrentNode(w.nodes, w.q.chain))
      [] w.q.pc = "connect" -> getBlockedAccounts_init(w, ev)
      [] w.q.pc = "rpc" ->
            \* the catch block does not return: the code after it runs too
            LET w1 == IF ev = "throw" THEN reject(ApisClose(w), "rpc") ELSE w
                w2 == ApisClose(w1)
            IN  IF ev \in {"throw", "absent"} THEN Done(reject(w2, "not_found"))
                ELSE Done(resolve(w2, "object"))
      [] OTHER -> w

\* init_promise settled
accountSearch_init(w, ev) ==
    LET w1 == ApisInit(w, ev)
    IN  IF ev = "fail" THEN Done(reject(Rotate(w1), "connect"))
        ELSE IF ~DbApi(w1.apis)
        THEN Done(reject(Rotate(ApisClose(w1)), "no_db_api"))
        ELSE Exec(w1, "get_accounts", "rpc")

\* The same with a rotation when the account is not found.
accountSearch_rotatesonempty(w, ev) ==
    CASE w.q.pc = "idle" ->
            ApisInstance(w, getCurrentNode(w.nodes, w.q.chain))
      [] w.q.pc = "connect" -> accountSearch_init(w, ev)
      [] w.q.pc = "rpc" ->
            LET w1 == IF ev = "throw" THEN reject(ApisClose(w), "rpc") ELSE w
            IN  IF ev \in {"throw", "absent", "empty"}
                THEN Done(reject(Rotate(w1), "not_found"))
                ELSE Done(resolve(ApisClose(w1), "object"))
      [] OTHER -> w

accountSearch(w, ev) ==
    CASE w.q.pc = "idle" ->
            ApisInstance(w, getCurrentNode(w.nodes, w.q.chain))
      [] w.q.pc = "connect" -> accountSearch_init(w, ev)
      [] w.q.pc = "rpc" ->
            LET w1 == IF ev = "throw" THEN reject(ApisClose(w), "rpc") ELSE w
            IN  IF ev \in {"throw", "absent", "empty"}
                THEN Done(reject(w1, "not_found"))
                ELSE Done(resolve(ApisClose(w1), "object"))
      [] OTHER -> w

\* init_promise settled
getFullAccounts_init(w, ev) ==
    LET w1 == ApisInit(w, ev)
    IN  IF ev = "fail" THEN Done(reject(Rotate(w1), "connect"))
        ELSE IF ~DbApi(w1.apis)
        THEN Done(reject(Rotate(ApisClose(w1)), "no_db_api"))
        ELSE Exec(w1, "get_full_accounts", "rpc")

getFullAccounts(w, ev) ==
    CASE w.q.pc = "idle" ->
            ApisInstance(w, getCurrentNode(w.nodes, w.q.chain))
      [] w.q.pc = "connect" -> getFullAccounts_init(w, ev)
      [] w.q.pc = "rpc" ->
            LET w1 == IF ev = "throw" THEN reject(ApisClose(w), "rpc") ELSE w
                w2 == ApisClose(w1)
            IN  IF ev \in {"throw", "absent", "empty"}
                THEN Done(reject(w2, "not_found"))
                ELSE Done(resolve(w2, "object"))
      [] OTHER -> w

\* The same with changeURL called after the try/catch instead of inside the
\* catch block: a call that connects rotates too.
getAccountBalances_init_rotates(w, ev) ==
    LET w1 == Rotate(ApisInit(w, ev))
    IN  IF ev = "fail" THEN Done(reject(w1, "connect"))
        ELSE IF ~DbApi(w1.apis)
        THEN Done(reject(Rotate(ApisClose(w1)), "no_db_api"))
        ELSE Exec(w1, "get_account_balances", "rpc")

\* init_promise settled
getAccountBalances_init(w, ev) ==
    LET w1 == ApisInit(w, ev)
    IN  IF ev = "fail" THEN Done(reject(Rotate(w1), "connect"))
        ELSE IF ~DbApi(w1.apis)
        THEN Done(reject(Rotate(ApisClose(w1)), "no_db_api"))
        ELSE Exec(w1, "get_account_balances", "rpc")

getAccountBalances(w, ev) ==
    CASE w.q.pc = "idle" ->
            ApisInstance(w, getCurrentNode(w.nodes, w.q.chain))
      [] w.q.pc = "connect" -> getAccountBalances_init(w, ev)
      [] w.q.pc = "rpc" ->
            LET w1 == IF ev = "throw" THEN reject(ApisClose(w), "rpc") ELSE w
                w2 == ApisClose(w1)
            IN  IF ev \in {"throw", "absent", "empty"}
                THEN Done(reject(w2, "not_found"))
                ELSE Done(resolve(w2, "balances"))
      [] OTHER -> w

\* init_promise settled
getLimitOrders_init(w, ev) ==
    LET w1 == ApisInit(w, ev)
    IN  IF ev = "fail" THEN Done(reject(Rotate(w1), "connect"))
        ELSE IF ~DbApi(w1.apis)
        THEN Done(reject(Rotate(ApisClose(w1)), "no_db_api"))
        ELSE Exec(w1, "get_limit_orders_by_account", "rpc")

getLimitOrders(w, ev) ==
    CASE w.q.pc = "idle" ->
            ApisInstance(w, getCurrentNode(w.nodes, w.q.chain))
      [] w.q.pc = "connect" -> getLimitOrders_init(w, ev)
      [] w.q.pc = "rpc" ->
            LET w1 == IF ev = "throw" THEN reject(ApisClose(w), "rpc") ELSE w
                w2 == ApisClose(w1)
            IN  IF ev \in {"throw", "absent", "empty"}
                THEN Done(reject(w2, "not_found"))
                ELSE Done(resolve(w2, "limitOrders"))
      [] OTHER -> w

\* The same with a catch block that does not call changeURL.
fetchOrderBook_init_norotate(w, ev) ==
    LET w1 == ApisInit(w, ev)
    IN  IF ev = "fail" THEN Done(reject(w1, "connect"))
        ELSE IF DbApi(w1.apis) THEN Exec(w1, "get_order_book", "rpc")
        ELSE Goto(ApisClose([w1 EXCEPT !.q.out = "throw"]), "closing")

\* init_promise settled
fetchOrderBook_init(w, ev) ==
    LET w1 == ApisInit(w, ev)
    IN  IF ev = "fail" THEN Done(reject(Rotate(w1), "connect"))
        ELSE IF DbApi(w1.apis) THEN Exec(w1, "get_order_book", "rpc")
        ELSE \* db_api() is undefined: .exec throws, the catch logs it
             Goto(ApisClose([w1 EXCEPT !.q.out = "throw"]), "closing")

fetchOrderBook(w, ev) ==
    CASE w.q.pc = "idle" ->
            ApisInstance(w, getCurrentNode(w.nodes, w.q.chain))
      [] w.q.pc = "connect" -> fetchOrderBook_init(w, ev)
      [] w.q.pc = "rpc" ->
            Goto(ApisClose([w EXCEPT !.q.out = ev]), "closing")
      [] w.q.pc = "closing" ->
            IF w.q.out \in {"throw", "absent"} THEN Done(reject(w, "not_found"))
            ELSE Done(resolve(w, "orderBook"))
      [] OTHER -> w

\* The tail without the test of limitOrders.
getPortfolio_tail_nocheck(w) ==
    LET w1 == ApisClose(w)
    IN  IF w1.q.out2 \in {"throw", "absent"}
        THEN Done(reject(w1, "balances_not_found"))
        ELSE Done(resolve(w1, "portfolio"))

\* getPortfolio from the end of the balances try/catch to the end
getPortfolio_tail(w) ==
    LET w1 == ApisClose(w)
    IN  IF w1.q.out2 \in {"throw", "absent"}
        THEN Done(reject(w1, "balances_not_found"))
        ELSE IF w1.q.out \in {"throw", "absent"}
        THEN Done(reject(w1, "orders_not_found"))
        ELSE Done(resolve(w1, "portfolio"))

\* init_promise settled
getPortfolio_init(w, ev) ==
    LET w1 == ApisInit(w, ev)
    IN  IF ev = "fail" THEN Done(reject(Rotate(w1), "connect"))
        ELSE IF ~DbApi(w1.apis)
        THEN Done(reject(Rotate(ApisClose(w1)), "no_db_api"))
        ELSE Exec(w1, "get_limit_orders_by_account", "rpc")

getPortfolio(w, ev) ==
    CASE w.q.pc = "idle" ->
            ApisInstance(w, getCurrentNode(w.nodes, w.q.chain))
      [] w.q.pc = "connect" -> getPortfolio_init(w, ev)
      [] w.q.pc = "rpc" ->
            \* the catch block does not return: the balances call follows
            LET w1 == [w EXCEPT !.q.out = ev]
                w2 == IF ev = "throw" THEN reject(ApisClose(w1), "rpc") ELSE w1
            IN  IF DbApi(w2.apis) THEN Exec(w2, "get_account_balances", "rpc2")
                ELSE getPortfolio_tail(
                        reject(ApisClose([ExecOnClosed(w2)
                                            EXCEPT !.q.out2 = "throw"]), "rpc"))
      [] w.q.pc = "rpc2" ->
            LET w1 == [w EXCEPT !.q.out2 = ev]
                w2 == IF ev = "throw" THEN reject(ApisClose(w1), "rpc") ELSE w1
            IN  getPortfolio_tail(w2)
      [] OTHER -> w

\* lines 337-385; no session.  An exception of `await history.json()` leaves
\* the executor without a settlement.
getAccountHistory(w, ev) ==
    CASE w.q.pc = "idle" -> Goto(w, "fetch")
      [] w.q.pc = "fetch" ->
            LET w1 == [w EXCEPT !.q.out = ev]
            IN  IF ev = "throw" THEN Done(reject(w1, "fetch"))
                ELSE IF ev = "error_status" THEN Done(w1)
                ELSE Goto(w1, "json")
      [] w.q.pc = "json" ->
            LET w1 == [w EXCEPT !.q.out2 = ev]
            IN  IF ev = "throw" THEN Done(w1)
                ELSE IF ev = "absent" THEN Done(reject(w1, "not_found"))
                ELSE Done(resolve(w1, "history"))
      [] OTHER -> w

Run(w, ev) ==
    CASE w.q.fn = "generateDeepLink" -> generateDeepLink(w, ev)
      [] w.q.fn = "getObjects" -> getObjects(w, ev)
      [] w.q.fn = "getBlockedAccounts" -> getBlockedAccounts(w, ev)
      [] w.q.fn = "accountSearch" -> accountSearch(w, ev)
      [] w.q.fn = "getFullAccounts" -> getFullAccounts(w, ev)
      [] w.q.fn = "getAccountBalances" -> getAccountBalances(w, ev)
      [] w.q.fn = "getLimitOrders" -> getLimitOrders(w, ev)
      [] w.q.fn = "fetchOrderBook" -> fetchOrderBook(w, ev)
      [] w.q.fn = "getPortfolio" -> getPortfolio(w, ev)
      [] w.q.fn = "getAccountHistory" -> getAccountHistory(w, ev)
      [] OTHER -> w

----------------------------------------------------------------------------
(* The state machine *)

Commit(r, w) ==
    /\ req' = [req EXCEPT ![r] = w.q]
    /\ apis' = w.apis
    /\ nodes' = w.nodes

InFlight(r) == req[r].pc \notin {"idle", "done"}

\* A route handler calls an entry point: the code up to `await init_promise`.
Call(r) ==
    /\ req[r].pc = "idle"
    /\ calls < (IF serial THEN MaxSeqCalls ELSE MaxCalls)
    /\ serial => \A o \in Reqs : req[o].pc = "idle"
    /\ \A o \in Reqs : o < r => req[o].pc # "idle"    \* lowest free slot
    /\ \E f \in Fns, c \in Chains, a \in BOOLEAN,
          l \in (IF serial THEN IdLists ELSE ShortIdLists) :
          /\ a \/ f = "getObjects"
          /\ (l = <<>>) \/ f = "getObjects"
          /\ l = null => a       \* null comes from the route, which passes app
          /\ \E d \in (IF f # "generateDeepLink" THEN {NoDeepLinkInput}
                        ELSE IF serial THEN DeepLinkInputs
                        ELSE ShortDeepLinkInputs) :
                Commit(r, Run([World(r) EXCEPT !.q.fn = f, !.q.chain = c,
                                               !.thrown = TypeError,
                                               !.q.app = a, !.q.ids = l,
                                               !.q.opType = d.opType,
                                               !.q.operations = d.operations],
                              "call"))
    /\ calls' = calls + 1
    /\ UNCHANGED <<serial, streak, http>>

\* History, kept for the runs without overlap, of the connects on a chain.
\* Of every call: fails connects in a row have failed since the list was
\* from.  Of the calls that took their endpoint from the store: n connects
\* in a row have failed since the list was base; ok is the endpoint the
\* call right after them connected to (0: none yet).
TrackAll(k, ev, before) ==
    CASE ev = "fail" -> IF k.fails = 0 THEN [k EXCEPT !.fails = 1, !.from = before]
                        ELSE [k EXCEPT !.fails = @ + 1]
      [] OTHER -> [k EXCEPT !.fails = 0]

TrackStore(k, q, ev, before, after) ==
    CASE ~q.app -> k
      [] ev = "fail" -> IF k.ok # 0 THEN [k EXCEPT !.n = 1, !.base = before, !.ok = 0]
                        ELSE [k EXCEPT !.n = @ + 1]
      [] ev = "ok" -> IF k.ok = 0 THEN [k EXCEPT !.ok = q.node]
                      ELSE [k EXCEPT !.n = 0, !.base = after, !.ok = q.node]
      [] OTHER -> [k EXCEPT !.n = 0, !.base = after, !.ok = 0]

Track(k, q, ev, before, after) ==
    IF ~serial THEN k
    ELSE TrackStore(TrackAll(k, ev, before), q, ev, before, after)

\* init_promise settles.
Connect(r) ==
    /\ req[r].pc = "connect"
    /\ \E ev \in ConnectOutcomes :
          /\ \E e \in Thrown(ev), add \in AddOutcomes :
                /\ add = "throw" => /\ req[r].fn = "generateDeepLink"
                                    /\ ev # "fail"
                /\ Commit(r, Run([World(r) EXCEPT !.thrown = e, !.add = add],
                                 ev))
          /\ streak' = [streak EXCEPT ![req[r].chain] =
                            Track(@, req[r], ev, nodes[req[r].chain],
                                  nodes'[req[r].chain])]
    /\ UNCHANGED <<calls, serial, http>>

\* The awaited fetch of getAccountHistory returns or throws.
Fetch(r) ==
    /\ req[r].pc = "fetch"
    /\ \E ev \in FetchOutcomes, e \in RemoteErrors \cup {TypeError} :
          /\ e \in Thrown(ev)
          /\ Commit(r, Run([World(r) EXCEPT !.thrown = e], ev))
    /\ UNCHANGED <<calls, serial, streak, http>>

\* An awaited RPC (db_api().exec, update_head_block) or history.json()
\* returns or throws.
Return(r) ==
    /\ req[r].pc \in {"rpc", "rpc2", "chunk", "head", "json"}
    /\ \E ev \in RpcOutcomes, e \in RemoteErrors \cup {TypeError} :
          /\ e \in Thrown(ev)
          /\ Commit(r, Run([World(r) EXCEPT !.thrown = e], ev))
    /\ UNCHANGED <<calls, serial, streak, http>>

\* The awaited set_required_fees returns or throws; set_expire_seconds and
\* finalize follow without an await.
Fees(r) ==
    /\ req[r].pc = "fees"
    /\ \E ev \in FeesOutcomes, e \in RemoteErrors \cup {TypeError} :
          /\ e \in Thrown(ev)
          /\ Commit(r, Run([World(r) EXCEPT !.thrown = e], ev))
    /\ UNCHANGED <<calls, serial, streak, http>>

\* `await uuidv4()` and `await Apis.close()` resume.
Tick(r) ==
    /\ req[r].pc \in {"uuid", "closing"}
    /\ \E ev \in TickOutcomes, e \in RemoteErrors \cup {TypeError} :
          /\ e \in Thrown(ev)
          /\ Commit(r, Run([World(r) EXCEPT !.thrown = e], ev))
    /\ UNCHANGED <<calls, serial, streak, http>>

\* The promise tr.finalize(Apis) returned settles; nobody awaits it.  Its RPC
\* cannot complete before the function has run to its end.
FinalizeSettles(r) ==
    /\ req[r].pc = "done"
    /\ req[r].fin = "pending"
    /\ \E f \in {"ok", "failed"} : req' = [req EXCEPT ![r].fin = f]
    /\ UNCHANGED <<nodes, apis, calls, serial, streak, http>>

\* The caller has received the settled promise; the slot is free again.
Finish(r) ==
    /\ req[r].pc = "done"
    /\ req' = [req EXCEPT ![r] = Blank]
    /\ UNCHANGED <<nodes, apis, calls, serial, streak, http>>

\* The route table: path, the shape of the tests at the top of the handler,
\* and the function the handler then calls.  Shapes:
\*   "nodes"     one test, !chain or neither chain name: 'Invalid chain'
\*   "deeplink"  !body, JSON.parse(body), !chain, !opType; then the two names
\*   "main"      chain !== "bitshares" only
\*   "id"        !chain or another path parameter empty; then the two names
\*   "pair"      !chain, !base, !quote; then the two names
\*   "objects"   !body, !chain; then the two names; then JSON.parse(body)
\*   "market"    !chain, !base, !quote, !accountID; then the asset ids; then
\*               the two names
\*   "chain"     !chain; then the two names
\*   "two"       the two names only
\*   "any"       no test
\*   "one_id"    one test, !chain or neither chain name or !id:
\*               'Missing required fields'
\*   "one"       one test, !chain or neither chain name:
\*               'Missing required fields'
\*   "assets"    !body, no keys, !chain; then the two names; then the ids
\*               are read from the body
Rt(path, style, fn) == [path |-> path, style |-> style, fn |-> fn]

Routes ==
    { Rt("/state/currentNodes", "nodes", "none"),
      Rt("/api/deeplink", "deeplink", "generateDeepLink"),
      Rt("/api/blockedAccounts", "main", "getBlockedAccounts"),
      Rt("/api/fullAccount", "id", "getFullAccounts"),
      Rt("/api/orderBook", "pair", "fetchOrderBook"),
      Rt("/api/limitOrders", "pair", "fetchLimitOrders"),
      Rt("/api/accountLookup", "id", "accountSearch"),
      Rt("/api/getAccountBalances", "id", "getAccountBalances"),
      Rt("/api/getAccountLimitOrders", "id", "getLimitOrders"),
      Rt("/api/getAccountHistory", "id", "getAccountHistory"),
      Rt("/api/getPortfolio", "id", "getPortfolio"),
      Rt("/api/getObjects", "objects", "getObjects"),
      Rt("/api/getMarketHistory", "market", "getMarketTrades"),
      Rt("/api/getFeaturedMarkets", "chain", "fetchMarkets"),
      Rt("/api/fetchCreditDeals", "id", "fetchCreditDeals"),
      Rt("/cache/allassets", "two", "getAllAssets"),
      Rt("/cache/offers", "two", "getActiveOffers"),
      Rt("/cache/pools", "any", "getPools"),
      Rt("/cache/bitassets", "any", "getMinBitassets"),
      Rt("/cache/pool", "one_id", "getPool"),
      Rt("/cache/dynamic", "one_id", "getDynamicData"),
      Rt("/cache/asset", "one_id", "getAsset"),
      Rt("/cache/assets", "assets", "getAsset"),
      Rt("/cache/feeSchedule", "one", "getFeeSchedule"),
      Rt("/cache/marketSearch", "one", "getMarketSearch") }

\* Values of the :chain path parameter: the two chain names, the empty
\* string, another chain, and a chain name in another case.
ChainInputs == {"bitshares", "bitshares_testnet", "", "eos", "BITSHARES"}

\* Values of the :base and :quote path parameters, as sequences of
\* characters: the empty string, two asset ids, a symbol, and an id cut
\* short of its second dot.
AssetInputs ==
    { <<>>,
      <<"1", ".", "3", ".", "0">>,
      <<"1", ".", "3", ".", "1", "2", "1">>,
      <<"B", "T", "S">>,
      <<"1", ".", "3">> }

\* Request bodies: the empty string, a string that is not JSON, the JSON
\* text null, the JSON text of a non-empty array, a non-empty object, and
\* an object without keys.
BodyInputs == {"blank", "text", "null", "json", "object", "emptyobject"}

\* The inputs a route's handler reads.  A parameter the route does not have
\* is drawn from one value, the one NoRequest holds.
\* /api/deeplink declares its body a string; the other two routes with a
\* body declare nothing.
FieldsOf(rt) ==
    IF rt.style \in {"deeplink", "id", "market", "one_id"} THEN BOOLEAN
    ELSE {TRUE}

AssetsOf(rt) ==
    IF rt.style \in {"pair", "market"} THEN AssetInputs
    ELSE {<<"1", ".", "3", ".", "0">>}

Bodies(rt) ==
    CASE rt.style = "deeplink" -> {"blank", "text", "null", "json"}
      [] rt.style \in {"objects", "assets"} -> BodyInputs
      [] OTHER -> {"json"}

\* s.includes(sub)
Includes(s, sub) ==
    \E i \in 1..(Len(s) - Len(sub) + 1) : SubSeq(s, i, i + Len(sub) - 1) = sub

\* JSON.parse(body) of a body that is not empty: what it returns, or the
\* error it throws.  An object is first turned into the string
\* "[object Object]", which is not JSON.
JSONparse(body) ==
    CASE body = "json" -> "value"
      [] body = "null" -> "null"
      [] OTHER -> "SyntaxError"

NoRequest == [path |-> "none", chain |-> "", fields |-> TRUE,
              base |-> <<"1", ".", "3", ".", "0">>,
              quote |-> <<"1", ".", "3", ".", "0">>, body |-> "json",
              error |-> "none", invoked |-> "none"]

\* The tests a handler makes before it calls anything, in the handler's
\* order: the error it throws, "none" when it goes on to the call.
\* fields: every path parameter other than chain, base and quote is present.
Validate(rt, chain, fields, base, quote, body) ==
    LET noChain == chain = ""
        notTwo == chain # "bitshares" /\ chain # "bitshares_testnet"
        missing == "Missing required fields"
        invalid == "Invalid chain"
        asset == <<"1", ".", "3", ".">>
    IN  CASE rt.style = "nodes" ->
                IF noChain \/ (~noChain /\ notTwo) THEN invalid ELSE "none"
          [] rt.style = "deeplink" ->
                IF body = "blank" THEN missing
                ELSE IF JSONparse(body) = "SyntaxError" THEN "SyntaxError"
                ELSE IF JSONparse(body) = "null" \/ noChain \/ ~fields
                THEN missing
                ELSE IF notTwo THEN invalid
                ELSE "none"
          [] rt.style = "main" ->
                IF chain # "bitshares" THEN invalid ELSE "none"
          [] rt.style = "id" ->
                IF noChain \/ ~fields THEN missing
                ELSE IF notTwo THEN invalid
                ELSE "none"
          [] rt.style = "pair" ->
                IF noChain \/ base = <<>> \/ quote = <<>> THEN missing
                ELSE IF notTwo THEN invalid
                ELSE "none"
          [] rt.style = "objects" ->
                IF body = "blank" \/ noChain THEN missing
                ELSE IF notTwo THEN invalid
                ELSE IF JSONparse(body) = "SyntaxError" THEN "SyntaxError"
                ELSE "none"
          [] rt.style = "market" ->
                IF noChain \/ base = <<>> \/ quote = <<>> \/ ~fields
                THEN missing
                ELSE IF ~Includes(base, asset) \/ ~Includes(quote, asset)
                THEN "Invalid asset IDs"
                ELSE IF notTwo THEN invalid
                ELSE "none"
          [] rt.style = "chain" ->
                IF noChain THEN missing
                ELSE IF notTwo THEN invalid
                ELSE "none"
          [] rt.style = "two" ->
                IF notTwo THEN invalid ELSE "none"
          [] rt.style = "any" -> "none"
          [] rt.style = "one_id" ->
                IF noChain \/ notTwo \/ ~fields THEN missing ELSE "none"
          [] rt.style = "one" ->
                IF noChain \/ notTwo THEN missing ELSE "none"
          [] rt.style = "assets" ->
                IF body = "blank" \/ body = "emptyobject" \/ noChain
                THEN missing
                ELSE IF notTwo THEN invalid
                ELSE IF body = "object" THEN "none"
                ELSE IF JSONparse(body) = "SyntaxError" THEN "SyntaxError"
                ELSE IF JSONparse(body) = "null" THEN "TypeError"
                ELSE "none"

\* One HTTP request is handled up to the call of the function behind it.
Handle(rt, chain, fields, base, quote, body) ==
    /\ http' = [path |-> rt.path, chain |-> chain, fields |-> fields,
                base |-> base, quote |-> quote, body |-> body,
                error |-> Validate(rt, chain, fields, base, quote, body),
                invoked |->
                    IF Validate(rt, chain, fields, base, quote, body) = "none"
                    THEN rt.fn ELSE "none"]
    /\ UNCHANGED <<nodes, apis, req, calls, serial, streak>>

Init0 ==
    /\ http = NoRequest
    /\ nodes = [c \in Chains |-> ConfigNodes(c)]
    /\ apis = NoConn
    /\ req = [r \in Reqs |-> Blank]
    /\ calls = 0
    /\ streak = [c \in Chains |->
                    [n |-> 0, base |-> ConfigNodes(c), ok |-> 0, fails |-> 0,
                     from |-> ConfigNodes(c)]]

Init == Init0 /\ serial = FALSE
InitSeq == Init0 /\ serial = TRUE

Next == \E r \in Reqs :
    \/ Call(r)
    \/ Connect(r)
    \/ Fetch(r)
    \/ Return(r)
    \/ Fees(r)
    \/ Tick(r)
    \/ FinalizeSettles(r)
    \/ Finish(r)

Spec == Init /\ [][Next]_vars
SpecSeq == InitSeq /\ [][Next]_vars

\* The route layer alone: requests arrive one after the other.
NextRoutes ==
    \E rt \in Routes, chain \in ChainInputs :
        \E fields \in FieldsOf(rt), base \in AssetsOf(rt),
           quote \in AssetsOf(rt), body \in Bodies(rt) :
            Handle(rt, chain, fields, base, quote, body)

SpecRoutes == InitSeq /\ [][NextRoutes]_vars

TypeOK ==
    /\ \A c \in Chains : Len(nodes[c]) = Len(ConfigNodes(c))
    /\ \A r \in Reqs : req[r].pc \in {"idle", "connect", "rpc", "rpc2", "chunk",
                                      "head", "fees", "uuid", "closing", "done",
                                      "fetch", "json"}

----------------------------------------------------------------------------
(* Properties *)

DeepLinks == {r \in Reqs : req[r].fn = "generateDeepLink"}
SingleQueries == {"getBlockedAccounts", "accountSearch", "getFullAccounts",
                  "getAccountBalances", "getLimitOrders", "fetchOrderBook"}
StepOrder == <<"head", "fees", "expire", "finalize", "serialize">>
IsPrefix(a, b) == Len(a) <= Len(b) /\ SubSeq(b, 1, Len(a)) = a
Ran(r, s) == \E k \in 1..Len(req[r].steps) : req[r].steps[k] = s
ConnectFailed(r) == req[r].pc = "done" /\ req[r].conns > 0 /\ ~req[r].opened

RECURSIVE HeadToBack(_, _)
HeadToBack(l, k) ==
    IF k = 0 \/ Len(l) = 0 THEN l ELSE HeadToBack(Tail(l) \o <<Head(l)>>, k - 1)

\* C1: a call that opened a session has called Apis.close() at least once
\* by the time its promise is settled, whatever the exit path.
C1_ReleasedBeforeDelivery ==
    \A r \in Reqs :
        (req[r].opened /\ req[r].settled # "none") => req[r].closesAtSettle >= 1

\* C2: a single-query entry point or getObjects that opened a session never
\* calls Apis.close() a second time, and has called it exactly once when it
\* is done.
C2_ClosedExactlyOnce ==
    \A r \in Reqs :
        (req[r].fn \in SingleQueries \cup {"getObjects"} /\ req[r].opened)
            => /\ req[r].closes <= 1
               /\ req[r].pc = "done" => req[r].closes = 1

\* C3: while a call that opened a session is in flight and has not closed it,
\* the connection behind Apis.instance() is the one that call opened: no
\* other call has replaced or closed it.
C3_SessionNotShared ==
    \A r \in Reqs :
        (req[r].opened /\ InFlight(r) /\ req[r].closes = 0)
            => (apis.owner = r /\ apis.st = "open")

\* C4: the steps of generateDeepLink run in the order reference block, fees,
\* expiration, finalize (then serialization), and once a step has failed,
\* finalize included, no later step runs and the session is released.
C4_StepsGated ==
    \A r \in DeepLinks :
        /\ IsPrefix(req[r].steps, StepOrder)
        /\ req[r].fin \in {"thrown", "failed"}
              => (~Ran(r, "serialize") /\ (req[r].pc = "done" => req[r].closes >= 1))

\* C5: generateDeepLink resolves with an envelope only if finalize (and so
\* every step before it) had completed successfully when the draft was
\* serialized.
C5_AllOrNothing ==
    \A r \in DeepLinks :
        req[r].settled = "resolved" => req[r].finAtSerialize = "ok"

\* C6: a generateDeepLink call that opened a session and in which the
\* reference block, the fees, the expiration or finalize failed has, once it
\* has run to its end, called Apis.close() exactly once; a failed fee
\* computation yields a rejection without a serialized draft.
StepFailed(r) ==
    \/ req[r].err \in {"head", "fees", "expire", "finalize"}
    \/ req[r].fin \in {"thrown", "failed"}

C6_DeepLinkClosesOnce ==
    \A r \in DeepLinks :
        (req[r].opened /\ StepFailed(r)) =>
            /\ req[r].closes <= 1
            /\ req[r].pc = "done" => req[r].closes = 1
            /\ req[r].err = "fees" =>
                  (req[r].settled = "rejected" /\ ~Ran(r, "serialize"))

\* C7 as stated: every call whose connect failed has called changeURL exactly
\* once, connected once, issued no RPC and rejected with the connect error.
C7_RotatesOnce ==
    \A r \in Reqs :
        ConnectFailed(r) =>
            /\ req[r].rots = 1 /\ req[r].conns = 1 /\ req[r].rpcLog = <<>>
            /\ req[r].settled = "rejected" /\ req[r].err = "connect"

\* C7 amended: every call whose connect failed has connected once, issued no
\* RPC, rejected with the connect error, and called changeURL exactly once if
\* it was given the app (the store of the endpoint lists); getObjects called
\* without app has called it not at all.
C7_RotatesOnceWithApp ==
    \A r \in Reqs :
        ConnectFailed(r) =>
            /\ req[r].rots = (IF req[r].app THEN 1 ELSE 0)
            /\ req[r].conns = 1 /\ req[r].rpcLog = <<>>
            /\ req[r].settled = "rejected" /\ req[r].err = "connect"

C7_Witness ==
    \E r \in Reqs :
        /\ ConnectFailed(r) /\ req[r].fn = "getObjects" /\ req[r].app
        /\ req[r].rots = 1 /\ req[r].err = "connect"

\* C8 as stated: when a whole number of rounds of N calls in a row, none
\* overlapping another, have failed to connect on a chain with N endpoints,
\* the chain's list is what it was before the first of them.
C8_FullCycleOfAll ==
    \A c \in Chains :
        (streak[c].fails > 0 /\ streak[c].fails % Len(ConfigNodes(c)) = 0)
            => nodes[c] = streak[c].from

\* C8 amended: the same of the calls that were given the app (the store of
\* the endpoint lists), whatever getObjects calls without app came between
\* them: those leave the list as it is.
C8_FullCycle ==
    \A c \in Chains :
        (streak[c].n > 0 /\ streak[c].n % Len(ConfigNodes(c)) = 0)
            => nodes[c] = streak[c].base

C8_Witness ==
    /\ streak["bitshares"].n = Len(ConfigNodes("bitshares"))
    /\ streak["bitshares"].ok = 0
    /\ \A r \in Reqs : ~InFlight(r)

\* C9: the endpoint list of every chain is always a permutation of the
\* configured list.
C9_Permutation ==
    \A c \in Chains :
        /\ Len(nodes[c]) = Len(ConfigNodes(c))
        /\ {nodes[c][k] : k \in 1..Len(nodes[c])}
              = {ConfigNodes(c)[k] : k \in 1..Len(ConfigNodes(c))}
        /\ \A j, k \in 1..Len(nodes[c]) : nodes[c][j] = nodes[c][k] => j = k

\* Two calls that read the same head have both failed and rotated.
C9_Witness ==
    \E r1, r2 \in Reqs :
        /\ r1 # r2 /\ ConnectFailed(r1) /\ ConnectFailed(r2)
        /\ req[r1].chain = req[r2].chain /\ req[r1].node = req[r2].node
        /\ req[r1].rots = 1 /\ req[r2].rots = 1

\* The list was base = [x,y,z,...], two calls in a row failed to connect and
\* the next one has connected.
TwoFailedThenConnected(c) ==
    streak[c].n = 2 /\ streak[c].ok # 0 /\ Len(streak[c].base) >= 3

\* C10 as stated: the session is then open against z, and the list is
\* [y,z,...,x].
C10_ListAfterScenario ==
    \A c \in Chains :
        TwoFailedThenConnected(c) =>
            /\ streak[c].ok = streak[c].base[3]
            /\ nodes[c] = HeadToBack(streak[c].base, 1)

\* C10 amended: the session is then open against z, and the list is
\* [z,...,x,y]: each of the two failed calls has moved one head to the back.
C10_ListAfterScenarioTwice ==
    \A c \in Chains :
        TwoFailedThenConnected(c) =>
            /\ streak[c].ok = streak[c].base[3]
            /\ nodes[c] = HeadToBack(streak[c].base, 2)

C10_Witness ==
    /\ TwoFailedThenConnected("bitshares")
    /\ \E r \in Reqs : req[r].opened /\ req[r].node = streak["bitshares"].base[3]

----------------------------------------------------------------------------
(* getObjects *)

Fetches == {r \in Reqs : req[r].fn = "getObjects" /\ req[r].pc = "done"
                          /\ req[r].opened}
\* The calls among them that were given a list of IDs
ListFetches == {r \in Fetches : req[r].ids # null}
CeilDiv(n, d) == (n + d - 1) \div d
NumChunks(ids) == CeilDiv(Len(ids), ChunkSize)
\* The k-th run of at most ChunkSize consecutive IDs of the input
ChunkOf(ids, k) ==
    SubSeq(ids, (k - 1) * ChunkSize + 1,
           IF k * ChunkSize < Len(ids) THEN k * ChunkSize ELSE Len(ids))

RECURSIVE ConcatIds(_)
ConcatIds(log) ==
    IF log = <<>> THEN <<>> ELSE Head(log).ids \o ConcatIds(Tail(log))

\* C11: a getObjects call given a list of IDs, over an endpoint with the
\* database API, issues one get_objects call per chunk, in order,
\* non-recursive; the chunks have at most 50 IDs, all but the last exactly
\* 50, and concatenate to the input: ceil(n/50) calls, for 120 IDs three of
\* 50, 50 and 20.
C11_OneCallPerChunk ==
    \A r \in ListFetches :
        req[r].connEv = "ok" =>
            LET log == req[r].chunkLog
                n == Len(req[r].ids)
            IN  /\ Len(log) = CeilDiv(n, 50)
                /\ ConcatIds(log) = req[r].ids
                /\ \A k \in 1..Len(log) :
                      /\ Len(log[k].ids) <= 50
                      /\ k < Len(log) => Len(log[k].ids) = 50
                      /\ ~log[k].recursive
                /\ n = 120 => /\ Len(log) = 3
                              /\ Len(log[1].ids) = 50 /\ Len(log[2].ids) = 50
                              /\ Len(log[3].ids) = 20
                /\ [k \in 1..Len(req[r].rpcLog) |-> req[r].rpcLog[k].m]
                      = [k \in 1..Len(log) |-> "get_objects"]

C11_Witness ==
    \E r \in ListFetches :
        /\ req[r].connEv = "ok" /\ Len(req[r].ids) = 120
        /\ Len(req[r].chunkLog) = 3

RECURSIVE MergeFrom(_, _, _)
\* The objects of the chunks k, k+1, ... that succeeded, in order
MergeFrom(ids, outs, k) ==
    IF k > NumChunks(ids) THEN <<>>
    ELSE (IF outs[k] = "data"
          THEN SelectSeq(ChunkOf(ids, k), LAMBDA id : ~Missing(id))
          ELSE <<>>) \o MergeFrom(ids, outs, k + 1)

Count(outs, o) == Cardinality({k \in 1..Len(outs) : outs[k] = o})

\* C12: every chunk of the list of IDs a getObjects call was given is
\* requested whatever became of the chunks before it, and the result is the objects of the chunks that
\* succeeded, in chunk order; one failed chunk and two that succeeded give a
\* success with a non-empty result.
C12_FailedChunkSkipped ==
    \A r \in ListFetches :
        /\ Len(req[r].outs) = NumChunks(req[r].ids)
        /\ req[r].got = MergeFrom(req[r].ids, req[r].outs, 1)
        /\ (Len(req[r].outs) = 3 /\ Count(req[r].outs, "throw") = 1
                /\ Count(req[r].outs, "data") = 2)
              => (req[r].settled = "resolved" /\ req[r].got # <<>>)

C12_Witness ==
    \E r \in ListFetches :
        /\ req[r].outs = <<"data", "throw", "data">>
        /\ req[r].settled = "resolved"
        /\ Len(req[r].got) > 0

\* C13: a getObjects call that connected ends in the failure "Couldn't
\* retrieve objects" exactly when nothing was gathered, and in a success
\* otherwise.
C13_FailureIffEmpty ==
    \A r \in Fetches :
        /\ req[r].settled \in {"resolved", "rejected"}
        /\ req[r].settled = "rejected" <=> req[r].got = <<>>
        /\ req[r].settled = "rejected" => req[r].err = "no_objects"

\* The IDs whose object exists and whose chunk returned objects, in input
\* order
Survivors(ids, outs) ==
    LET kept == SelectSeq([p \in 1..Len(ids) |-> p],
                          LAMBDA p : /\ ~Missing(ids[p])
                                     /\ outs[CeilDiv(p, ChunkSize)] = "data")
    IN  [k \in 1..Len(kept) |-> ids[kept[k]]]

\* C14: the result of a successful getObjects call holds no null and is the
\* surviving objects in the order of the input IDs; the IDs 1, 2 and a
\* missing third give two objects.
C14_NoNullInOrder ==
    \A r \in Fetches :
        req[r].settled = "resolved" =>
            /\ \A k \in 1..Len(req[r].got) : req[r].got[k] # Null
            /\ req[r].got = Survivors(req[r].ids, req[r].outs)
            /\ (req[r].ids = <<1, 2, 3>> /\ req[r].outs = <<"data">>)
                  => req[r].got = <<1, 2>>

C14_Witness ==
    \E r \in Fetches :
        /\ req[r].ids = <<1, 2, 3>> /\ Missing(3)
        /\ req[r].settled = "resolved"
        /\ Len(req[r].got) = 2

----------------------------------------------------------------------------
(* getPortfolio *)

Portfolios == {r \in Reqs : req[r].fn = "getPortfolio" /\ req[r].pc = "done"
                             /\ req[r].opened}
Failed(o) == o \in {"throw", "absent"}

\* C15: a getPortfolio call one of whose two sub-queries threw or returned
\* nothing ends in a failure; a resolved call holds both parts.
C15_BothPartsOrFailure ==
    \A r \in Portfolios :
        /\ (Failed(req[r].out) \/ Failed(req[r].out2))
              => req[r].settled = "rejected"
        /\ req[r].settled = "resolved"
              => /\ req[r].out \in {"empty", "data"}
                 /\ req[r].out2 \in {"empty", "data"}

C15_Witness ==
    \E r \in Portfolios :
        /\ Failed(req[r].out) /\ req[r].out2 = "data"
        /\ req[r].settled = "rejected"

\* C16: a getPortfolio call that connected closes the session exactly once.
C16_PortfolioClosesOnce ==
    \A r \in Portfolios : req[r].closes = 1

----------------------------------------------------------------------------
(* The route layer *)

\* C17: a request to a route with a chain parameter goes through when the
\* chain is bitshares or bitshares_testnet (the other path parameters
\* present, base and quote asset ids, the body the JSON text of a list), and
\* any other chain is answered with an error before a function is called.
WellFormed(h) ==
    /\ h.fields
    /\ Includes(h.base, <<"1", ".", "3", ".">>)
    /\ Includes(h.quote, <<"1", ".", "3", ".">>)
    /\ h.body = "json"

C17_ChainValidated ==
    http.path # "none" =>
        /\ (http.chain \in Chains /\ WellFormed(http)) => http.error = "none"
        /\ http.chain \notin Chains
              => (http.error # "none" /\ http.invoked = "none")

----------------------------------------------------------------------------
(* Delivery *)

\* C18: a call that has run to its end, every remote call it made having
\* returned or thrown, has resolved or rejected its promise; getAccountHistory
\* has rejected it when the fetch threw or answered with an error status.
C18_AlwaysSettles ==
    \A r \in Reqs :
        req[r].pc = "done" =>
            /\ req[r].settled # "none"
            /\ (req[r].fn = "getAccountHistory"
                    /\ req[r].out \in {"throw", "error_status"})
                  => req[r].settled = "rejected"

----------------------------------------------------------------------------------------------------------------------------------------------------
(* Rotation under overlapping calls *)

\* C21: when a call that failed to connect to endpoint e has made its
\* rotation, the head of the chain's list (of two endpoints or more) is not
\* e, whatever other calls that read the same head have done meanwhile.
C21_FailedEndpointLeavesHead ==
    \A r \in Reqs :
        (ConnectFailed(r) /\ req[r].rots = 1
            /\ Len(ConfigNodes(req[r].chain)) >= 2)
            => req[r].headAfter # req[r].node

----------------------------------------------------------------------------
(* The RPC calls of getPortfolio *)

Methods(r) == [k \in 1..Len(req[r].rpcLog) |-> req[r].rpcLog[k].m]
OwnSession(r) ==
    \A k \in 1..Len(req[r].rpcLog) :
        req[r].rpcLog[k].owner = r /\ req[r].rpcLog[k].url = req[r].node

\* C22: the RPC calls of a getPortfolio call all go over one session, the
\* one the call opened.
C22_SameSession ==
    \A r \in Reqs : req[r].fn = "getPortfolio" => OwnSession(r)

\* C22 as stated in full: over that session, get_account_balances is issued
\* first and get_limit_orders_by_account second.
C22_BalancesThenOrders ==
    \A r \in Reqs :
        req[r].fn = "getPortfolio" =>
            /\ IsPrefix(Methods(r),
                        <<"get_account_balances", "get_limit_orders_by_account">>)
            /\ OwnSession(r)

----------------------------------------------------------------------------
(* Order of the last steps of generateDeepLink *)

\* C23: when generateDeepLink serializes the draft, it has closed the
\* session and finalize has completed.
C23_ClosedThenSerialized ==
    \A r \in DeepLinks :
        Ran(r, "serialize") =>
            /\ req[r].closesAtSerialize >= 1
            /\ req[r].finAtSerialize = "ok"

----------------------------------------------------------------------------
(* What a failure tells the caller *)

\* C24: two failures of generateDeepLink that come from different steps
\* deliver different errors to the caller.
C24_StepIdentified ==
    \A r1, r2 \in DeepLinks :
        (req[r1].settled = "rejected" /\ req[r2].settled = "rejected"
            /\ req[r1].err # req[r2].err)
            => req[r1].msg # req[r2].msg

\* C25: accountSearch, getAccountBalances and getLimitOrders never reject
\* with a "not found" error: a remote call that returned an empty or absent
\* result resolves.
C25_NotFoundIsNormal ==
    \A r \in Reqs :
        (req[r].fn \in {"accountSearch", "getAccountBalances", "getLimitOrders"}
            /\ req[r].settled = "rejected")
            => req[r].msg # "not_found"

\* The messages of the rejections that stand for an empty or absent result
EmptyResultMsgs == {"not_found", "no_objects", "balances_not_found",
                    "orders_not_found"}

\* C26: a call whose connection came up without db_api is rejected with an
\* error that is neither a connect error nor the error of an empty result,
\* and has issued no RPC call.
C26_NoDbApiDistinct ==
    \A r \in Reqs :
        (req[r].pc = "done" /\ req[r].connEv = "nodb") =>
            /\ req[r].settled = "rejected"
            /\ req[r].msg \notin RemoteErrors
            /\ req[r].msg \notin EmptyResultMsgs
            /\ req[r].rpcLog = <<>>

----------------------------------------------------------------------------
(* RPC calls and the session *)

\* C27: no call invokes an RPC after it has itself closed the session; in
\* particular getPortfolio does not ask for the balances after a failed
\* limit-orders call has closed it.
C27_NoRpcAfterOwnClose ==
    \A r \in Reqs : req[r].lateExecs = 0

\* C28: every RPC call of a request went over a connection to the endpoint
\* the request selected when it opened, an endpoint of its chain's list.
C28_RpcOverOwnEndpoint ==
    \A r \in Reqs :
        \A k \in 1..Len(req[r].rpcLog) :
            /\ req[r].rpcLog[k].url = req[r].node
            /\ \E i \in 1..Len(ConfigNodes(req[r].chain)) :
                  ConfigNodes(req[r].chain)[i] = req[r].rpcLog[k].url

----------------------------------------------------------------------------
(* What changes the endpoint lists *)

\* C29: a chain's endpoint list changes only in the step in which a request
\* for that chain learns that its connect failed or finds no db_api, and
\* then by one rotation; any other step of any request, a failed or empty
\* RPC included, leaves every list as it is.
C29_ListChangesOnlyAtOpen ==
    [][\A c \in Chains :
          nodes'[c] # nodes[c] =>
              \E r \in Reqs :
                  /\ req[r].chain = c
                  /\ req[r].pc = "connect" /\ req'[r].pc = "done"
                  /\ req'[r].err \in {"connect", "no_db_api"}
                  /\ nodes'[c] = changeURL(nodes[c])]_vars

C29_Witness ==
    \E r \in Reqs :
        /\ req[r].fn = "accountSearch" /\ req[r].pc = "done"
        /\ req[r].connEv = "ok" /\ req[r].msg = "not_found"
        /\ req[r].rots = 0
        /\ nodes = [c \in Chains |-> ConfigNodes(c)]

====
